---- MODULE Spec2Model ----
(***************************************************************************)
(* Model of src/manacher.cc: vector<string> manacher(string s).            *)
(* One behaviour is one invocation.  Indices are the code's 0-based ones;  *)
(* At(seq, k) reads element k of a 0-based string or vector.               *)
(***************************************************************************)
EXTENDS Integers, Sequences, FiniteSets, TLC

VARIABLES
  s,                   \* line 21: the argument
  processed_s,         \* lines 22-26
  n,                   \* line 28
  p,                   \* line 30: the radius vector, indices 0 .. n-1
  C, R,                \* line 33
  i,                   \* lines 34, 53, 59: the loop index
  maxLen,              \* line 52
  longestPalindromes,  \* line 58
  pc,                  \* the position in the function body
  expansions,          \* number of executions of line 42 so far
  oob                  \* whether line 37 has read p outside 0 .. n-1

vars == <<s, processed_s, n, p, C, R, i, maxLen, longestPalindromes, pc,
          expansions, oob>>

(* ------------------------------ bounds --------------------------------- *)
MaxLen == 5
NumLetters == 2

Letters == <<"a", "b", "c", "d", "e">>
Alphabet == {"#"} \cup {Letters[k] : k \in 1..NumLetters}

(* The inputs of test_manacher and of run_sample_manacher. *)
TestInputs ==
  { <<>>,
    <<"a">>,
    <<"a","b","a">>,
    <<"c","b","b","d">>,
    <<"b","a","n","a","n","a","s">>,
    <<"a","b","b","a">>,
    <<"a","b","c","c","b","a"," ","x","y","z","z","y","x">>,
    <<"l","e","v","e","l","m","a","d","a","m","l","e","v","e","l">>,
    <<"a","a","b","b","c","c","d","d","e","e","f","f">> }

Google == <<"g","o","o","g","l","e">>

Inputs == UNION {[1..l -> Alphabet] : l \in 0..MaxLen} \cup TestInputs \cup {Google}

(* ------------------------- helpers of the code ------------------------- *)
At(seq, k) == seq[k + 1]

Min(a, b) == IF a < b THEN a ELSE b

(* C++ integer division truncates toward zero. *)
CDiv(a, b) == IF a >= 0 THEN a \div b ELSE -((-a) \div b)

(* Lines 22-26: "#", then every character followed by "#". *)
RECURSIVE AppendAll(_, _, _)
AppendAll(acc, str, k) ==
  IF k > Len(str) THEN acc
  ELSE AppendAll(Append(Append(acc, str[k]), "#"), str, k + 1)

ProcessedSentinels(str) == <<"^">> \o AppendAll(<<"#">>, str, 1) \o <<"$">>

RECURSIVE AppendDedup(_, _, _)
AppendDedup(acc, str, k) ==
  IF k > Len(str) THEN acc
  ELSE AppendDedup(IF str[k] = "#" THEN Append(acc, str[k])
                   ELSE Append(Append(acc, str[k]), "#"), str, k + 1)

ProcessedDedup(str) == AppendDedup(<<"#">>, str, 1)

ProcessedNoLead(str) == AppendAll(<<>>, str, 1)

Processed(str) == AppendAll(<<"#">>, str, 1)

(* Lines 34, 53, 59: the condition of the three loops over interior indices. *)
LoopCondShort(k, len) == k < len - 2

LoopCond(k, len) == k < len - 1

(* Line 35. *)
Mirror(c, k) == 2 * c - k

(* Line 36. *)
SeedCondAlways(r, k) == TRUE

SeedCond(r, k) == r > k

(* Line 37. *)
SeedValueNoMin(r, k, pm) == pm

SeedValueZero(r, k, pm) == 0

SeedValue(r, k, pm) == Min(r - k, pm)

(* Line 37: the values a read of p[k] can give; outside the vector the read
   is undefined and may give any value. *)
PRead(pp, k, len) == IF k \in 0..(len - 1) THEN {pp[k]} ELSE 0..len

(* Line 41: the condition of the expansion loop, evaluated left to right. *)
ExpandCondLowerStrict(t, pp, k, len) ==
  /\ k - (1 + pp[k]) > 0
  /\ k + (1 + pp[k]) < len
  /\ At(t, k - (1 + pp[k])) = At(t, k + (1 + pp[k]))

ExpandCond(t, pp, k, len) ==
  /\ k - (1 + pp[k]) >= 0
  /\ k + (1 + pp[k]) < len
  /\ At(t, k - (1 + pp[k])) = At(t, k + (1 + pp[k]))

(* Line 46. *)
UpdateCondGeq(r, k, pk) == k + pk >= r

UpdateCond(r, k, pk) == k + pk > r

(* Lines 54-56. *)
MaxUpdate(m, pk) == IF pk > m THEN pk ELSE m

(* Line 61. *)
StartIndexNoHalf(k, m) == k - m

StartIndex(k, m) == CDiv(k - m, 2)

(* Line 62: std::string::substr(pos, len) for pos <= size(): at most len
   characters, cut at the end of the string. *)
Substr(str, pos, len) ==
  SubSeq(str, pos + 1, pos + Min(len, Len(str) - pos))

(* ------------------------------- states -------------------------------- *)
Init ==
  /\ s \in Inputs
  /\ processed_s = Processed(s)
  /\ n = Len(Processed(s))
  /\ p = [k \in 0..(Len(Processed(s)) - 1) |-> 0]
  /\ C = 0
  /\ R = 0
  /\ i = 1
  /\ maxLen = 0
  /\ longestPalindromes = <<>>
  /\ pc = "for"
  /\ expansions = 0
  /\ oob = FALSE

(* Lines 34-38: loop test, i_mirror, and the seeding of p[i]. *)
Seed ==
  /\ pc = "for"
  /\ LoopCond(i, n)
  /\ \E v \in (IF SeedCond(R, i) THEN PRead(p, Mirror(C, i), n) ELSE {0}) :
       p' = IF SeedCond(R, i) THEN [p EXCEPT ![i] = SeedValue(R, i, v)] ELSE p
  /\ oob' = (oob \/ (SeedCond(R, i) /\ Mirror(C, i) \notin 0..(n - 1)))
  /\ pc' = "while"
  /\ UNCHANGED <<s, processed_s, n, C, R, i, maxLen, longestPalindromes, expansions>>

(* Line 34 false: the main pass is over; line 52-53 start the maximum scan. *)
MainExit ==
  /\ pc = "for"
  /\ ~LoopCond(i, n)
  /\ pc' = "max"
  /\ i' = 1
  /\ maxLen' = 0
  /\ UNCHANGED <<s, processed_s, n, p, C, R, longestPalindromes, expansions, oob>>

(* Lines 41-43: one successful expansion, p[i]++. *)
Expand ==
  /\ pc = "while"
  /\ ExpandCond(processed_s, p, i, n)
  /\ p' = [p EXCEPT ![i] = p[i] + 1]
  /\ expansions' = expansions + 1
  /\ UNCHANGED <<s, processed_s, n, C, R, i, maxLen, longestPalindromes, pc, oob>>

(* Line 41 false: the expansion loop ends. *)
ExpandExit ==
  /\ pc = "while"
  /\ ~ExpandCond(processed_s, p, i, n)
  /\ pc' = "upd"
  /\ UNCHANGED <<s, processed_s, n, p, C, R, i, maxLen, longestPalindromes, expansions, oob>>

(* Lines 46-49 and the ++i of line 34. *)
Update ==
  /\ pc = "upd"
  /\ C' = IF UpdateCond(R, i, p[i]) THEN i ELSE C
  /\ R' = IF UpdateCond(R, i, p[i]) THEN i + p[i] ELSE R
  /\ i' = i + 1
  /\ pc' = "for"
  /\ UNCHANGED <<s, processed_s, n, p, maxLen, longestPalindromes, expansions, oob>>

(* Lines 53-57: one iteration of the maximum scan. *)
MaxStep ==
  /\ pc = "max"
  /\ LoopCond(i, n)
  /\ maxLen' = MaxUpdate(maxLen, p[i])
  /\ i' = i + 1
  /\ UNCHANGED <<s, processed_s, n, p, C, R, longestPalindromes, pc, expansions, oob>>

(* Line 53 false; lines 58-59 start the extraction. *)
MaxExit ==
  /\ pc = "max"
  /\ ~LoopCond(i, n)
  /\ pc' = "extract"
  /\ i' = 1
  /\ longestPalindromes' = <<>>
  /\ UNCHANGED <<s, processed_s, n, p, C, R, maxLen, expansions, oob>>

(* Lines 59-64: one iteration of the extraction.  substr throws
   std::out_of_range when its position is past the end of s (a negative
   start_index converts to a huge size_t). *)
ExtractStep ==
  /\ pc = "extract"
  /\ LoopCond(i, n)
  /\ LET start_index == StartIndex(i, maxLen)
         thrown == p[i] = maxLen /\ (start_index < 0 \/ start_index > Len(s))
     IN /\ longestPalindromes' =
             IF p[i] = maxLen /\ ~thrown
             THEN Append(longestPalindromes, Substr(s, start_index, maxLen))
             ELSE longestPalindromes
        /\ pc' = IF thrown THEN "threw" ELSE pc
  /\ i' = i + 1
  /\ UNCHANGED <<s, processed_s, n, p, C, R, maxLen, expansions, oob>>

(* Line 59 false; line 65. *)
Return ==
  /\ pc = "extract"
  /\ ~LoopCond(i, n)
  /\ pc' = "done"
  /\ UNCHANGED <<s, processed_s, n, p, C, R, i, maxLen, longestPalindromes, expansions, oob>>

Next ==
  \/ Seed
  \/ MainExit
  \/ Expand
  \/ ExpandExit
  \/ Update
  \/ MaxStep
  \/ MaxExit
  \/ ExtractStep
  \/ Return

Spec == Init /\ [][Next]_vars

(* The function runs to completion once called: every step is taken. *)
FairSpec == Spec /\ WF_vars(Next)

(* --------------------- reference notions of the claims ----------------- *)
IsPalindrome(str) == \A k \in 1..Len(str) : str[k] = str[Len(str) + 1 - k]

(* The characters str[k .. k+l-1], 0-based start k. *)
Sub(str, k, l) == SubSeq(str, k + 1, k + l)

PalStarts(str, l) == {k \in 0..(Len(str) - l) : IsPalindrome(Sub(str, k, l))}

(* Length of the longest palindromic substring (0 for the empty string). *)
MaxPalLen(str) ==
  CHOOSE l \in 0..Len(str) :
    /\ PalStarts(str, l) # {}
    /\ \A m \in (l + 1)..Len(str) : PalStarts(str, m) = {}

(* The start positions in a set, in increasing order. *)
RECURSIVE Ascending(_)
Ascending(S) ==
  IF S = {} THEN <<>>
  ELSE LET m == CHOOSE x \in S : \A y \in S : x <= y
       IN <<m>> \o Ascending(S \ {m})

(* Every longest palindromic substring, one per start position, ascending. *)
LongestByPosition(str) ==
  IF Len(str) = 0 THEN <<>>
  ELSE LET L == MaxPalLen(str)
           ks == Ascending(PalStarts(str, L))
       IN [j \in 1..Len(ks) |-> Sub(str, ks[j], L)]

(* T[k-r .. k+r] lies in T and is a palindrome. *)
PalAt(t, k, r) ==
  /\ k - r >= 0
  /\ k + r <= Len(t) - 1
  /\ \A d \in 1..r : At(t, k - d) = At(t, k + d)

(* r is the maximal radius at k. *)
MaximalAt(t, k, r) ==
  \/ k - r - 1 < 0
  \/ k + r + 1 >= Len(t)
  \/ At(t, k - r - 1) # At(t, k + r + 1)

Returned == pc = "done"

(* ------------------------------- claims -------------------------------- *)

(* C1: every returned string is a non-empty palindrome whose length is the
   maximum length of a palindromic substring of s, and each entry pushed for
   a center i is exactly the maxLen characters of s starting at
   (i - maxLen) / 2. *)
C1_EntriesLongestPalindromes ==
  /\ [](\A j \in 1..Len(longestPalindromes) :
          /\ longestPalindromes[j] # <<>>
          /\ IsPalindrome(longestPalindromes[j])
          /\ Len(longestPalindromes[j]) = MaxPalLen(s))
  /\ [][(pc = "extract" /\ Len(longestPalindromes') > Len(longestPalindromes)) =>
          LET start == CDiv(i - maxLen, 2)
          IN /\ start >= 0
             /\ start + maxLen <= Len(s)
             /\ longestPalindromes'[Len(longestPalindromes')] = Sub(s, start, maxLen)]_vars

C1_Witness ==
  /\ Returned
  /\ Len(longestPalindromes) >= 2
  /\ Len(longestPalindromes[1]) >= 2
  /\ Len(s) > Len(longestPalindromes[1])

(* C2: the result holds exactly one entry per start position of a longest
   palindromic substring, in strictly increasing order of start position,
   without deduplication by content. *)
C2_OneEntryPerStartAscending ==
  Returned =>
    /\ longestPalindromes = LongestByPosition(s)
    /\ (s = <<"a","b","c","c","b","a"," ","x","y","z","z","y","x">> =>
          longestPalindromes = << <<"a","b","c","c","b","a">>,
                                  <<"x","y","z","z","y","x">> >>)
    /\ (s = <<"a","a","b","b","c","c","d","d","e","e","f","f">> =>
          longestPalindromes = << <<"a","a">>, <<"b","b">>, <<"c","c">>,
                                  <<"d","d">>, <<"e","e">>, <<"f","f">> >>)

(* The same text reported twice, at two positions. *)
C2_Witness ==
  /\ Returned
  /\ \E j, k \in 1..Len(longestPalindromes) :
       j < k /\ longestPalindromes[j] = longestPalindromes[k]

(* C3: for the empty input nothing is returned, not even an empty string. *)
C3_EmptyInputEmptyResult ==
  (Returned /\ s = <<>>) => longestPalindromes = <<>>

C3_Witness == Returned /\ s = <<>> /\ maxLen = 0 /\ n = 1

(* C4: an input containing the separator character '#' still gives exactly
   the longest palindromic substrings in ascending start order, and every
   radius has the parity of its index. *)
C4_SeparatorInInput ==
  (\E k \in 1..Len(s) : s[k] = "#") =>
    /\ pc \in {"max", "extract", "done"} =>
         \A k \in 1..(n - 2) : p[k] % 2 = k % 2
    /\ pc # "threw"
    /\ Returned =>
         /\ Len(longestPalindromes) = Cardinality(PalStarts(s, MaxPalLen(s)))
         /\ \A j \in 1..Len(longestPalindromes) :
              longestPalindromes[j] = LongestByPosition(s)[j]

(* A separator-valued character next to an ordinary one, and a result entry
   that contains a '#'. *)
C4_Witness ==
  /\ Returned
  /\ \E k \in 1..Len(s) : s[k] = "#"
  /\ \E k \in 1..Len(s) : s[k] # "#"
  /\ \E j \in 1..Len(longestPalindromes) :
       /\ Len(longestPalindromes[j]) >= 3
       /\ \E k \in 1..Len(longestPalindromes[j]) : longestPalindromes[j][k] = "#"

(* C5 as stated: for "google" the result has "oo" as one of its entries. *)
C5_GoogleContainsOo ==
  (Returned /\ s = Google) =>
    \E j \in 1..Len(longestPalindromes) : longestPalindromes[j] = <<"o","o">>

(* C5 amended: for "google" the result is the single entry "goog", the
   longest palindromic substring, which contains "oo". *)
C5_GoogleIsGoog ==
  (Returned /\ s = Google) =>
    longestPalindromes = << <<"g","o","o","g">> >>

C5_Witness == Returned /\ s = Google /\ maxLen = 4

MainPassOver == pc \in {"max", "extract", "done"}

(* C6: after the main pass every p[k], boundary indices included, is the
   radius of a palindrome of T that lies within T and cannot be extended;
   during the pass p[i], from its seed on, never exceeds that radius. *)
C6_RadiiPalindromicAndMaximal ==
  /\ MainPassOver =>
       \A k \in 0..(n - 1) :
         /\ p[k] >= 0
         /\ PalAt(processed_s, k, p[k])
         /\ MaximalAt(processed_s, k, p[k])
  /\ pc = "while" => (p[i] >= 0 /\ PalAt(processed_s, i, p[i]))

(* A center seeded with R - i because its mirror's radius reaches past the
   left edge of the palindrome around C. *)
C6_Witness ==
  /\ pc = "while"
  /\ R > i
  /\ p[i] >= 1
  /\ p[i] = Min(R - i, p[Mirror(C, i)])
  /\ p[Mirror(C, i)] > R - i

(* C7: in the extraction, a center i with p[i] = maxLen has i - maxLen
   non-negative and even, and start_index + maxLen <= length(s); substr
   never throws and never truncates. *)
C7_StartIndexExactAndInRange ==
  /\ pc # "threw"
  /\ (pc = "extract" /\ LoopCond(i, n) /\ p[i] = maxLen) =>
       /\ i - maxLen >= 0
       /\ (i - maxLen) % 2 = 0
       /\ StartIndex(i, maxLen) + maxLen <= Len(s)

(* An even-length maximal palindrome that ends at the last character. *)
C7_Witness ==
  /\ pc = "extract"
  /\ LoopCond(i, n)
  /\ p[i] = maxLen
  /\ maxLen = 2
  /\ StartIndex(i, maxLen) + maxLen = Len(s)
  /\ StartIndex(i, maxLen) > 0

(* C8: when p[i_mirror] is read, 0 <= i_mirror < i; when the two characters
   of processed_s are compared, both indices are in [0, n - 1]; no read is
   out of bounds. *)
C8_NoOutOfBoundsAccess ==
  /\ ~oob
  /\ (pc = "for" /\ LoopCond(i, n) /\ SeedCond(R, i)) =>
       (0 <= Mirror(C, i) /\ Mirror(C, i) < i)
  /\ (pc = "while" /\ i - (1 + p[i]) >= 0 /\ i + (1 + p[i]) < n) =>
       /\ i - (1 + p[i]) \in 0..(n - 1)
       /\ i + (1 + p[i]) \in 0..(n - 1)

(* After C has moved and mirror values have been read, an iteration whose
   i_mirror is negative and which does not read p[i_mirror]. *)
C8_Witness ==
  /\ pc = "for"
  /\ LoopCond(i, n)
  /\ C > 0
  /\ \E k \in 1..(i - 1) : p[k] >= 2
  /\ ~(R > i)
  /\ Mirror(C, i) < 0

(* C9: between iterations (1 .. i-1 are finished) R is the maximum of
   j + p[j] over the finished indices and 0, R = C + p[C], C is the smallest
   index attaining it, C <= i - 1 and R <= n - 1; R never decreases, and C
   and R change only in the update of an iteration with i + p[i] > R. *)
C9_RightmostPalindromeTracked ==
  /\ [](pc = "for" =>
          /\ \A j \in 0..(i - 1) : j + p[j] <= R
          /\ \E j \in 0..(i - 1) : j + p[j] = R
          /\ R = C + p[C]
          /\ C <= i - 1
          /\ R <= n - 1
          /\ \A j \in 0..(i - 1) : j + p[j] = R => C <= j)
  /\ [][/\ R' >= R
        /\ (C' # C \/ R' # R) => (pc = "upd" /\ i + p[i] > R)]_vars

(* An iteration ended without moving C and R although they had moved before. *)
C9_Witness ==
  /\ pc = "for"
  /\ i >= 3
  /\ 0 < C
  /\ C < i - 1
  /\ R > i

(* C10: each p[i]++ leaves i + p[i] > R; a center whose seed p[i_mirror] is
   smaller than R - i never expands; at most n - 1 = 2 * length(s)
   expansions happen in one call; the call terminates. *)
C10_ExpansionsBoundedAndTerminates ==
  /\ [][expansions' # expansions => i + p'[i] > R]_vars
  /\ []((pc = "while" /\ R > i /\ p[Mirror(C, i)] < R - i) =>
          ~ExpandCond(processed_s, p, i, n))
  /\ [](expansions <= n - 1 /\ n - 1 = 2 * Len(s))
  /\ <>(pc = "done")

(* A center whose mirror seed is positive and smaller than R - i, after
   earlier centers have expanded. *)
C10_Witness ==
  /\ pc = "while"
  /\ R > i
  /\ p[Mirror(C, i)] < R - i
  /\ p[i] >= 1
  /\ expansions >= 3

====
